---- MODULE Spec2Model ----
(***************************************************************************)
(* A model of the two-pass SAP-1 assembler of                              *)
(* src/sap1_instruction_compiler.py: tokenize (line normalizer),           *)
(* first_pass (label collector), assemble (encoder) and parse_number.      *)
(* Text is kept as text: a source is a string, lines and tokens are        *)
(* strings, and the Python string methods the code calls are operators     *)
(* over strings.                                                           *)
(***************************************************************************)
EXTENDS Integers, Sequences, FiniteSets, TLC

(***************************************************************************)
(* Python string primitives used by the source.                           *)
(***************************************************************************)

\* s[i-1:i], the i-th character of s as a one-character string
Ch(s, i) == SubSeq(s, i, i)

\* s[k-1:]
From(s, k) == SubSeq(s, k, Len(s))

\* the whitespace characters str.strip() and str.split() remove
Whitespace == {" ", "\t"}

RECURSIVE lstrip(_)
lstrip(s) == IF Len(s) > 0 /\ Ch(s, 1) \in Whitespace THEN lstrip(From(s, 2)) ELSE s

RECURSIVE rstrip(_)
rstrip(s) ==
    IF Len(s) > 0 /\ Ch(s, Len(s)) \in Whitespace
    THEN rstrip(SubSeq(s, 1, Len(s) - 1)) ELSE s

\* str.strip()
strip(s) == rstrip(lstrip(s))

\* s.find(c) + 1 for a one-character c: the 1-based place of the first c, 0 if none
find(s, c) ==
    LET I == {i \in 1..Len(s) : Ch(s, i) = c}
    IN  IF I = {} THEN 0 ELSE CHOOSE i \in I : \A j \in I : i <= j

\* c in s
contains(s, c) == find(s, c) # 0

\* s.split(c)[0] and s.split(c, 1)[0]: the text before the first c
before(s, c) == LET k == find(s, c) IN IF k = 0 THEN s ELSE SubSeq(s, 1, k - 1)

\* s.split(c, 1)[1], for s that contains c: the text after the first c
after(s, c) == From(s, find(s, c) + 1)

\* s.startswith(p)
startswith(s, p) == Len(s) >= Len(p) /\ SubSeq(s, 1, Len(p)) = p

LowerCase == "abcdefghijklmnopqrstuvwxyz"
UpperCase == "ABCDEFGHIJKLMNOPQRSTUVWXYZ"

\* the constant tables of str.upper() and str.lower() on ASCII letters
ToUpper == [c \in {Ch(LowerCase, i) : i \in 1..Len(LowerCase)} |-> Ch(UpperCase, find(LowerCase, c))]
ToLower == [c \in {Ch(UpperCase, i) : i \in 1..Len(UpperCase)} |-> Ch(LowerCase, find(UpperCase, c))]

upperCh(c) == IF c \in DOMAIN ToUpper THEN ToUpper[c] ELSE c
lowerCh(c) == IF c \in DOMAIN ToLower THEN ToLower[c] ELSE c

RECURSIVE upper(_)
upper(s) == IF Len(s) = 0 THEN s ELSE upperCh(Ch(s, 1)) \o upper(From(s, 2))

RECURSIVE lower(_)
lower(s) == IF Len(s) = 0 THEN s ELSE lowerCh(Ch(s, 1)) \o lower(From(s, 2))

\* s.replace(a, b) for one-character a and b
RECURSIVE replace(_, _, _)
replace(s, a, b) ==
    IF find(s, a) = 0 THEN s
    ELSE before(s, a) \o b \o replace(after(s, a), a, b)

\* s.split(): the maximal runs of non-whitespace characters
RECURSIVE split(_)
split(s) ==
    LET t == lstrip(s)
        W == {i \in 1..Len(t) : Ch(t, i) \in Whitespace}
        k == IF W = {} THEN Len(t) + 1 ELSE CHOOSE i \in W : \A j \in W : i <= j
    IN  IF Len(t) = 0 THEN <<>>
        ELSE <<SubSeq(t, 1, k - 1)>> \o split(From(t, k))

\* s.splitlines() for text whose only line break is "\n"
RECURSIVE splitlines(_)
splitlines(s) ==
    IF Len(s) = 0 THEN <<>>
    ELSE IF contains(s, "\n")
         THEN <<before(s, "\n")>> \o splitlines(after(s, "\n"))
         ELSE <<s>>

(***************************************************************************)
(* int(text, base), for base 2, 10 and 16.                                 *)
(***************************************************************************)

Digits == "0123456789abcdefghijklmnopqrstuvwxyz"

\* the constant table of digit values: 0-9, then a-z for 10-35
DigitValues == [c \in {Ch(Digits, i) : i \in 1..Len(Digits)} |-> find(Digits, c) - 1]

\* the value of a digit character, or 36 when it is none
digitValue(c) == IF lowerCh(c) \in DOMAIN DigitValues THEN DigitValues[lowerCh(c)] ELSE 36

\* the digits part of a literal: digits below the base, single underscores
\* only between digits
wellFormedDigits(d, base) ==
    /\ Len(d) > 0
    /\ \A i \in 1..Len(d) : Ch(d, i) = "_" \/ digitValue(Ch(d, i)) < base
    /\ Ch(d, 1) # "_"
    /\ Ch(d, Len(d)) # "_"
    /\ \A i \in 1..(Len(d) - 1) : ~(Ch(d, i) = "_" /\ Ch(d, i + 1) = "_")

RECURSIVE digitsValue(_, _, _)
digitsValue(d, base, acc) ==
    IF Len(d) = 0 THEN acc
    ELSE IF Ch(d, 1) = "_" THEN digitsValue(From(d, 2), base, acc)
    ELSE digitsValue(From(d, 2), base, acc * base + digitValue(Ch(d, 1)))

\* an optional sign starts the literal
isSigned(t) == Len(t) > 0 /\ Ch(t, 1) \in {"+", "-"}

skipSign(t) == IF isSigned(t) THEN From(t, 2) ELSE t

\* 0x or 0X may start a base-16 literal, 0b or 0B a base-2 literal
hasPrefix(u, base) ==
    \/ base = 16 /\ (startswith(u, "0x") \/ startswith(u, "0X"))
    \/ base = 2  /\ (startswith(u, "0b") \/ startswith(u, "0B"))

\* one underscore may follow the prefix
skipUnderscore(v) == IF startswith(v, "_") THEN From(v, 2) ELSE v

skipPrefix(u, base) == IF hasPrefix(u, base) THEN skipUnderscore(From(u, 3)) ELSE u

intDigits(d, neg, base, text) ==
    IF wellFormedDigits(d, base)
    THEN [ok |-> TRUE, val |-> (IF neg THEN -1 ELSE 1) * digitsValue(d, base, 0),
          base |-> base, text |-> text]
    ELSE [ok |-> FALSE, val |-> 0, base |-> base, text |-> text]

intStripped(t, base, text) ==
    intDigits(skipPrefix(skipSign(t), base), startswith(t, "-"), base, text)

\* int(text, base): [ok |-> TRUE, val |-> n], or [ok |-> FALSE, ...] for ValueError
int(text, base) == intStripped(strip(text), base, text)

(***************************************************************************)
(* Helper functions of the assembler.                                      *)
(***************************************************************************)

\* re.fullmatch(r"0b[01]+", s.lower()) after s.lower().startswith("0b")
is_binary_token(s) ==
    /\ startswith(lower(s), "0b")
    /\ Len(s) >= 3
    /\ \A i \in 3..Len(s) : Ch(s, i) \in {"0", "1"}

\* the base parse_number reads tok in, by its prefix
baseOf(tok) ==
    IF is_binary_token(tok) THEN 2
    ELSE IF startswith(tok, "0x") \/ startswith(tok, "0X") THEN 16
    ELSE IF startswith(lower(tok), "0b") THEN 2
    ELSE 10

parseStripped(tok) == int(tok, baseOf(tok))

\* tok = tok.strip(); ... return int(tok, base)
parse_number(tok) == parseStripped(strip(tok))

\* normalize that knows ";" only: "#" does not start a comment
normalize_semicolonOnly(raw) == strip(before(raw, ";"))

\* the normalized line of one raw line
normalize(raw) == strip(before(before(raw, ";"), "#"))

\* if line: yield line
yield(line) == IF Len(line) > 0 THEN <<line>> ELSE <<>>

RECURSIVE keepNonEmpty(_)
keepNonEmpty(ls) ==
    IF ls = <<>> THEN <<>>
    ELSE yield(normalize(Head(ls))) \o keepNonEmpty(Tail(ls))

\* list(tokenize(src))
tokenize(text) == keepNonEmpty(splitlines(text))

(***************************************************************************)
(* The instruction set.                                                    *)
(***************************************************************************)

\* ISA[mnemonic] = <<opcode, needs an operand>>
ISA ==
    [m \in {"LDA", "LDB", "ADD", "SHL_A", "SHR_A", "SHL_B", "SHR_B", "JUMP", "HLT"} |->
        CASE m = "LDA"   -> <<1, TRUE>>
          [] m = "LDB"   -> <<2, TRUE>>
          [] m = "ADD"   -> <<3, FALSE>>
          [] m = "SHL_A" -> <<4, FALSE>>
          [] m = "SHR_A" -> <<5, FALSE>>
          [] m = "SHL_B" -> <<6, FALSE>>
          [] m = "SHR_B" -> <<7, FALSE>>
          [] m = "JUMP"  -> <<8, TRUE>>
          [] m = "HLT"   -> <<9, FALSE>>]

(***************************************************************************)
(* The sources the assembler is run on.                                    *)
(***************************************************************************)

\* the most lines of a source drawn freely from RawLines
MaxLines == 3

\* the number of one-cell statements of the padding that fills the memory
PadLen == 16

\* the most lines of a source drawn freely from RawLines and ExtraLines,
\* alone or after the padding
MaxTail == 1

\* the lines whose interplay is explored: labels and their uses, ORG, DATA,
\* comments, and the lines on which a pass raises
RawLines ==
    { "HLT", "LDA 5", "JUMP end", "end: HLT", "end:", "5:  # a label named 5",
      "ORG 0x0A", "DATA 0xFF", "Add end, 0b2", "nopline", "; only a comment",
      "LDA", "foo 1", "x: ,", "JUMP 0b2", "ORG 0b2" }

\* the lines explored alone and at the wrap-around of the program counter
ExtraLines ==
    { "DATA 300", "DATA -1", "DATA", "DATA 0b_1", "ORG", "ORG 26", "ORG 15",
      "LDB", "JUMP", "LDB 0x1F", "JUMP -1", "lda 0B101", "LDA 0b", "LDA 1_0",
      "SHL_A 3", "shr_b", "\tHLT ;", "", "a:b: HLT", ": HLT", "NOPLINE 7",
      "JUMP end, 1", "LDA,5", "org 3", "data 7", "DATA 0x" }

\* the statements of the padding, repeated in this order: every mnemonic once
PadLines ==
    << "LDA 1", "LDB 2", "ADD", "SHL_A", "SHR_A", "SHL_B", "SHR_B", "JUMP 3", "HLT" >>

BoundedSeq(S, n) == UNION {[1..m -> S] : m \in 0..n}

\* "\n".join(ls)
RECURSIVE join(_)
join(ls) ==
    IF ls = <<>> THEN ""
    ELSE IF Len(ls) = 1 THEN Head(ls)
    ELSE Head(ls) \o "\n" \o join(Tail(ls))

Padding == [i \in 1..PadLen |-> PadLines[((i - 1) % Len(PadLines)) + 1]]

Sources ==
    {join(ls) : ls \in BoundedSeq(RawLines, MaxLines)}
    \cup {join(pre \o ls) : pre \in {<<>>, Padding},
                           ls \in BoundedSeq(RawLines \cup ExtraLines, MaxTail)}

(***************************************************************************)
(* The state of one run of assemble(src).                                  *)
(***************************************************************************)

VARIABLES
    src,     \* the source text handed to assemble
    ctl,     \* where the run is: "tokenize", "pass1", "pass2", "returned", "raised"
    lines,   \* list(tokenize(src)): the normalized lines
    k1,      \* first_pass: the number of lines its loop has consumed
    pc1,     \* first_pass: pc
    labels,  \* first_pass: labels, read by assemble
    out,     \* first_pass: out, the list assemble calls lines; <<op, args, at>>
    k2,      \* assemble: the number of operations its loop has consumed
    pc,      \* assemble: pc
    mem,     \* assemble: mem
    err      \* the exception that ended the run, NoError while there is none

vars == <<src, ctl, lines, k1, pc1, labels, out, k2, pc, mem, err>>

NoError == [kind |-> "none", args |-> <<>>]

\* raise ValueError(f"Duplicate label: {lab}")
DuplicateLabel(lab) == [kind |-> "DuplicateLabel", args |-> <<lab>>]

\* raise ValueError(f"Unknown instruction: {op}")
UnknownInstruction(op) == [kind |-> "UnknownInstruction", args |-> <<op>>]

\* raise ValueError(f"{op} needs an operand at address {pc:01X}")
MissingOperand(op, addr) == [kind |-> "MissingOperand", args |-> <<op, addr>>]

\* the ValueError of int(): invalid literal for int() with base {base}: {text!r}
InvalidNumericLiteral(r) == [kind |-> "InvalidNumericLiteral", args |-> <<r.base, r.text>>]

\* the IndexError of toks[0], toks[1] and args[0]: list index out of range
IndexError == [kind |-> "IndexError", args |-> <<>>]

Init ==
    /\ src \in Sources
    /\ ctl = "tokenize"
    /\ lines = <<>>
    /\ k1 = 0
    /\ pc1 = 0
    /\ labels = <<>>
    /\ out = <<>>
    /\ k2 = 0
    /\ pc = 0
    /\ mem = [a \in 0..15 |-> 0]
    /\ err = NoError

\* labels, lines = first_pass(list(tokenize(src))): the argument
Tokenize ==
    /\ ctl = "tokenize"
    /\ lines' = tokenize(src)
    /\ ctl' = "pass1"
    /\ UNCHANGED <<src, k1, pc1, labels, out, k2, pc, mem, err>>

(***************************************************************************)
(* Pass 1: first_pass, one loop iteration per step.                        *)
(***************************************************************************)

\* & 0xF
mask4(n) == n % 16

\* mask8 without the mask: the value is stored as parsed
mask8_unmasked(n) == n

\* & 0xFF
mask8(n) == n % 256

\* lab,line = line.split(":",1); lab=lab.strip(); line=line.strip(), if ":" in line
splitLabel(line) ==
    LET k == find(line, ":")
    IN  IF k = 0 THEN [has |-> FALSE, lab |-> "", stmt |-> line]
        ELSE [has |-> TRUE, lab |-> strip(SubSeq(line, 1, k - 1)),
              stmt |-> strip(From(line, k + 1))]

\* isDuplicate that never finds the label
isDuplicate_never(lab, lbls) == FALSE

\* if lab in labels: raise ValueError(f"Duplicate label: {lab}")
isDuplicate(lab, lbls) == lab \in DOMAIN lbls

\* bindLabel after the counter moved: the label names the next cell
bindLabel_next(lab, lbls, addr) == (lab :> mask4(addr + 1)) @@ lbls

\* labels[lab]=pc
bindLabel(lab, lbls, addr) == (lab :> addr) @@ lbls

\* toks=line.replace(","," ").split()
toksOf(stmt) == split(replace(stmt, ",", " "))

\* (toks[0].upper(), toks[1:], pc)
parsedOp(toks, addr) == <<upper(toks[1]), Tail(toks), addr>>

\* orgPc without the mask
orgPc_unmasked(n) == n

\* pc = parse_number(toks[1]) & 0xF
orgPc(n) == mask4(n)

\* advance without the wrap
advance_nowrap(addr) == addr + 1

\* pc=(pc+1)&0xF
advance(addr) == mask4(addr + 1)

\* what one iteration of the loop of first_pass did: the exception raised
\* (NoError if none), labels, what was appended to out, and pc after it;
\* bare tells a line that is only a label
FirstPassResult(e, lbls, ops, addr, sp) ==
    [err |-> e, labels |-> lbls, ops |-> ops, pc |-> addr,
     bare |-> sp.has /\ Len(sp.stmt) = 0]

\* if toks[0].upper()=="ORG": pc = parse_number(toks[1]) & 0xF
firstPassOrg(num, sp, toks, lbls, addr) ==
    IF ~num.ok
    THEN FirstPassResult(InvalidNumericLiteral(num), lbls, <<parsedOp(toks, addr)>>, addr, sp)
    ELSE FirstPassResult(NoError, lbls, <<parsedOp(toks, addr)>>, orgPc(num.val), sp)

\* the statement of a line, as toks; its label (if any) is bound in lbls
firstPassToks(sp, toks, lbls, addr) ==
    IF sp.has /\ Len(sp.stmt) = 0
        THEN FirstPassResult(NoError, lbls, << <<"NOPLINE", <<>>, addr>> >>, addr, sp)
    ELSE IF Len(toks) = 0
        THEN FirstPassResult(IndexError, lbls, <<>>, addr, sp)
    ELSE IF upper(toks[1]) # "ORG"
        THEN FirstPassResult(NoError, lbls, <<parsedOp(toks, addr)>>, advance(addr), sp)
    ELSE IF Len(toks) < 2
        THEN FirstPassResult(IndexError, lbls, <<parsedOp(toks, addr)>>, addr, sp)
    ELSE firstPassOrg(parse_number(toks[2]), sp, toks, lbls, addr)

\* the label part of a line
firstPassSplit(sp, lbls, addr) ==
    IF sp.has /\ Len(sp.lab) > 0
    THEN IF isDuplicate(sp.lab, lbls)
         THEN FirstPassResult(DuplicateLabel(sp.lab), lbls, <<>>, addr, sp)
         ELSE firstPassToks(sp, toksOf(sp.stmt), bindLabel(sp.lab, lbls, addr), addr)
    ELSE firstPassToks(sp, toksOf(sp.stmt), lbls, addr)

\* one iteration of the loop of first_pass on line, with labels lbls and pc addr
firstPassLine(line, lbls, addr) == firstPassSplit(splitLabel(line), lbls, addr)

inPass1 == ctl = "pass1" /\ k1 < Len(lines)

\* an iteration that raises nothing
FirstPassContinue(r, bare) ==
    /\ r.err = NoError
    /\ r.bare = bare
    /\ labels' = r.labels
    /\ out' = out \o r.ops
    /\ pc1' = r.pc
    /\ k1' = k1 + 1
    /\ UNCHANGED <<src, ctl, lines, k2, pc, mem, err>>

\* an iteration that raises
FirstPassFail(r) ==
    /\ r.err # NoError
    /\ err' = r.err
    /\ labels' = r.labels
    /\ out' = out \o r.ops
    /\ ctl' = "raised"
    /\ UNCHANGED <<src, lines, k1, pc1, k2, pc, mem>>

\* a line that is only a label: the label is bound, NOPLINE is appended
FirstPassBareLabel ==
    /\ inPass1
    /\ FirstPassContinue(firstPassLine(lines[k1 + 1], labels, pc1), TRUE)

\* a line with a statement: its label (if any) is bound, the operation is appended
FirstPassStatement ==
    /\ inPass1
    /\ FirstPassContinue(firstPassLine(lines[k1 + 1], labels, pc1), FALSE)

\* a line on which first_pass raises
FirstPassRaise ==
    /\ inPass1
    /\ FirstPassFail(firstPassLine(lines[k1 + 1], labels, pc1))

\* return labels,out and, in assemble, pc=0
FirstPassReturn ==
    /\ ctl = "pass1"
    /\ k1 = Len(lines)
    /\ ctl' = "pass2"
    /\ pc' = 0
    /\ UNCHANGED <<src, lines, k1, pc1, labels, out, k2, mem, err>>

(***************************************************************************)
(* Pass 2: the loop of assemble, one iteration per step.                   *)
(***************************************************************************)

\* resolvesAsLabel with the number first: a token that parses is a literal
resolvesAsLabel_numberFirst(a, lbls) == a \in DOMAIN lbls /\ ~parse_number(a).ok

\* operand=(labels[a]&0xF) if a in labels else (parse_number(a)&0xF)
resolvesAsLabel(a, lbls) == a \in DOMAIN lbls

\* encode with the nibbles swapped
encode_swapped(opcode, operand) == mask4(operand) * 16 + mask4(opcode)

\* ((opcode&0xF)<<4)|(operand&0xF)
encode(opcode, operand) == mask4(opcode) * 16 + mask4(operand)

\* what one iteration of the loop of assemble did: the exception raised
\* (NoError if none), the byte written at pc (<<>> if none) and pc after it
AssembleResult(e, w, addr) == [err |-> e, write |-> w, pc |-> addr]

\* if op=="ORG": pc=parse_number(args[0])&0xF; continue
assembleOrg(num, addr) ==
    IF ~num.ok THEN AssembleResult(InvalidNumericLiteral(num), <<>>, addr)
    ELSE AssembleResult(NoError, <<>>, orgPc(num.val))

\* assembleData that stores a nibble, as an operand is stored
assembleData_nibble(num, addr) ==
    IF ~num.ok THEN AssembleResult(InvalidNumericLiteral(num), <<>>, addr)
    ELSE AssembleResult(NoError, <<mask4(num.val)>>, advance(addr))

\* if op=="DATA": mem[pc]=parse_number(args[0])&0xFF; pc=(pc+1)&0xF; continue
assembleData(num, addr) ==
    IF ~num.ok THEN AssembleResult(InvalidNumericLiteral(num), <<>>, addr)
    ELSE AssembleResult(NoError, <<mask8(num.val)>>, advance(addr))

\* operand=... else (parse_number(a)&0xF), and the write
assembleLiteral(opcode, num, addr) ==
    IF ~num.ok THEN AssembleResult(InvalidNumericLiteral(num), <<>>, addr)
    ELSE AssembleResult(NoError, <<encode(opcode, mask4(num.val))>>, advance(addr))

\* assembleInstruction that resolves the first argument whenever there is one
assembleInstruction_anyOperand(op, args, lbls, addr) ==
    IF Len(args) = 0
        THEN IF ISA[op][2] THEN AssembleResult(MissingOperand(op, addr), <<>>, addr)
             ELSE AssembleResult(NoError, <<encode(ISA[op][1], 0)>>, advance(addr))
    ELSE IF resolvesAsLabel(args[1], lbls)
        THEN AssembleResult(NoError, <<encode(ISA[op][1], mask4(lbls[args[1]]))>>,
                            advance(addr))
    ELSE assembleLiteral(ISA[op][1], parse_number(args[1]), addr)

\* assembleInstruction that takes a missing operand as 0
assembleInstruction_zeroOperand(op, args, lbls, addr) ==
    IF ~ISA[op][2] \/ Len(args) = 0
        THEN AssembleResult(NoError, <<encode(ISA[op][1], 0)>>, advance(addr))
    ELSE IF resolvesAsLabel(args[1], lbls)
        THEN AssembleResult(NoError, <<encode(ISA[op][1], mask4(lbls[args[1]]))>>,
                            advance(addr))
    ELSE assembleLiteral(ISA[op][1], parse_number(args[1]), addr)

\* opcode, needs = ISA[op]; operand=0; if needs: ...; mem[pc]=...; pc=(pc+1)&0xF
assembleInstruction(op, args, lbls, addr) ==
    IF ~ISA[op][2]
        THEN AssembleResult(NoError, <<encode(ISA[op][1], 0)>>, advance(addr))
    ELSE IF Len(args) = 0
        THEN AssembleResult(MissingOperand(op, addr), <<>>, addr)
    ELSE IF resolvesAsLabel(args[1], lbls)
        THEN AssembleResult(NoError, <<encode(ISA[op][1], mask4(lbls[args[1]]))>>,
                            advance(addr))
    ELSE assembleLiteral(ISA[op][1], parse_number(args[1]), addr)

\* one iteration of the loop of assemble on operation <<op, args, at>>, with
\* labels lbls and pc addr
assembleOp(op, args, at, lbls, addr) ==
    IF op = "NOPLINE" THEN AssembleResult(NoError, <<>>, at)
    ELSE IF op = "ORG" THEN
        IF Len(args) = 0 THEN AssembleResult(IndexError, <<>>, addr)
        ELSE assembleOrg(parse_number(args[1]), addr)
    ELSE IF op = "DATA" THEN
        IF Len(args) = 0 THEN AssembleResult(IndexError, <<>>, addr)
        ELSE assembleData(parse_number(args[1]), addr)
    ELSE IF op \notin DOMAIN ISA THEN AssembleResult(UnknownInstruction(op), <<>>, addr)
    ELSE assembleInstruction(op, args, lbls, addr)

inPass2 == ctl = "pass2" /\ k2 < Len(out)

\* the operation the loop of assemble is at
cur == out[k2 + 1]

\* store that clears every other cell when it writes
store_clearing(m, addr, w) ==
    IF w = <<>> THEN m ELSE [a \in DOMAIN m |-> IF a = addr THEN w[1] ELSE 0]

\* mem[pc]=..., when the iteration writes
store(m, addr, w) == IF w = <<>> THEN m ELSE [m EXCEPT ![addr] = w[1]]

\* an iteration that raises nothing
AssembleContinue(r) ==
    /\ r.err = NoError
    /\ mem' = store(mem, pc, r.write)
    /\ pc' = r.pc
    /\ k2' = k2 + 1
    /\ UNCHANGED <<src, ctl, lines, k1, pc1, labels, out, err>>

\* an iteration that raises
AssembleFail(r) ==
    /\ r.err # NoError
    /\ err' = r.err
    /\ ctl' = "raised"
    /\ UNCHANGED <<src, lines, k1, pc1, labels, out, k2, pc, mem>>

\* if op=="NOPLINE": pc=at; continue
AssembleNopLine ==
    /\ inPass2
    /\ cur[1] = "NOPLINE"
    /\ AssembleContinue(assembleOp(cur[1], cur[2], cur[3], labels, pc))

\* if op=="ORG": pc=parse_number(args[0])&0xF; continue
AssembleOrg ==
    /\ inPass2
    /\ cur[1] = "ORG"
    /\ AssembleContinue(assembleOp(cur[1], cur[2], cur[3], labels, pc))

\* if op=="DATA": mem[pc]=parse_number(args[0])&0xFF; pc=(pc+1)&0xF; continue
AssembleData ==
    /\ inPass2
    /\ cur[1] = "DATA"
    /\ AssembleContinue(assembleOp(cur[1], cur[2], cur[3], labels, pc))

\* mem[pc]=((opcode&0xF)<<4)|(operand&0xF); pc=(pc+1)&0xF
AssembleInstruction ==
    /\ inPass2
    /\ cur[1] \notin {"NOPLINE", "ORG", "DATA"}
    /\ AssembleContinue(assembleOp(cur[1], cur[2], cur[3], labels, pc))

\* an operation on which assemble raises
AssembleRaise ==
    /\ inPass2
    /\ AssembleFail(assembleOp(cur[1], cur[2], cur[3], labels, pc))

\* return mem
AssembleReturn ==
    /\ ctl = "pass2"
    /\ k2 = Len(out)
    /\ ctl' = "returned"
    /\ UNCHANGED <<src, lines, k1, pc1, labels, out, k2, pc, mem, err>>

Next ==
    \/ Tokenize
    \/ FirstPassBareLabel
    \/ FirstPassStatement
    \/ FirstPassRaise
    \/ FirstPassReturn
    \/ AssembleNopLine
    \/ AssembleOrg
    \/ AssembleData
    \/ AssembleInstruction
    \/ AssembleRaise
    \/ AssembleReturn

Spec == Init /\ [][Next]_vars

(***************************************************************************)
(* Properties.                                                             *)
(***************************************************************************)

\* pass 1 ran over every line without raising
pass1Succeeded == ctl \in {"pass2", "returned", "raised"} /\ k1 = Len(lines)

\* the line is a label and nothing else
bareLine(line) == splitLabel(line).has /\ Len(splitLabel(line).stmt) = 0

\* C1: whenever assemble has returned, and in every state of pass 2, the
\* memory image has exactly 16 cells and every cell is an integer in 0..255.
C1_ImageIs16Bytes ==
    ctl \in {"pass2", "returned"} =>
        /\ DOMAIN mem = 0..15
        /\ \A a \in 0..15 : mem[a] \in 0..255

\* a returned image of a source of more than 16 statements whose last one is
\* DATA 300: the cell holds 300 mod 256
C1_Witness ==
    /\ ctl = "returned"
    /\ Len(out) > 16
    /\ out[Len(out)] = <<"DATA", <<"300">>, (Len(out) - 1) % 16>>
    /\ mem[(Len(out) - 1) % 16] = 44

\* the opcode table of the instruction set, as the specification gives it
C2_Opcode ==
    [m \in {"LDA", "LDB", "ADD", "SHL_A", "SHR_A", "SHL_B", "SHR_B", "JUMP", "HLT"} |->
        CASE m = "LDA" -> 1 [] m = "LDB" -> 2 [] m = "ADD" -> 3
          [] m = "SHL_A" -> 4 [] m = "SHR_A" -> 5 [] m = "SHL_B" -> 6
          [] m = "SHR_B" -> 7 [] m = "JUMP" -> 8 [] m = "HLT" -> 9]

\* the resolved operand of LDA, LDB and JUMP, and 0 for the other six
C2_Operand(op, args) ==
    IF op \in {"LDA", "LDB", "JUMP"}
    THEN IF args[1] \in DOMAIN labels THEN labels[args[1]] ELSE parse_number(args[1]).val
    ELSE 0

\* C2: every step of pass 2 that encodes an instruction of the nine-entry table
\* writes opcode * 16 + (operand mod 16) at the current program counter, changes
\* no other cell, and advances the counter by 1 modulo 16.
C2_InstructionEncoding ==
    [][ (inPass2 /\ cur[1] \in DOMAIN C2_Opcode /\ k2' = k2 + 1)
        => /\ mem' = [mem EXCEPT
                        ![pc] = C2_Opcode[cur[1]] * 16 + (C2_Operand(cur[1], cur[2]) % 16)]
           /\ pc' = (pc + 1) % 16 ]_vars

\* "LDA 5" then "HLT": cell 0 = 0x15 and cell 1 = 0x90
C2_Witness ==
    /\ src = "LDA 5\nHLT"
    /\ ctl = "returned"
    /\ mem[0] = 21
    /\ mem[1] = 144

\* the lines that define label a
C3_DefinedAt(a) ==
    {d \in 1..Len(lines) : splitLabel(lines[d]).has /\ splitLabel(lines[d]).lab = a}

\* C3: when pass 2 encodes an instruction whose operand token names a label,
\* the low nibble written is the address pass 1 tagged on the line that defines
\* the label, whether that line comes before or after the instruction.
C3_LabelResolvesToDefinition ==
    [][ (/\ inPass2
         /\ k2' = k2 + 1
         /\ cur[1] \in {"LDA", "LDB", "JUMP"}
         /\ Len(cur[2]) > 0
         /\ cur[2][1] \in DOMAIN labels)
        => /\ C3_DefinedAt(cur[2][1]) # {}
           /\ \A d \in C3_DefinedAt(cur[2][1]) : mem'[pc] % 16 = out[d][3] ]_vars

\* "JUMP end / HLT / end: HLT": the forward reference gives cell 0 = 0x82
C3_Witness ==
    /\ src = "JUMP end\nHLT\nend: HLT"
    /\ ctl = "returned"
    /\ labels["end"] = 2
    /\ mem[0] = 130

\* the numeric argument of a parsed ORG operation
C4_OrgArg(e) == parse_number(e[2][1]).val

\* in pass 1 the operation after an ORG n is tagged n mod 16, and while ORG n
\* is the last operation the counter is n mod 16
C4_Pass1 ==
    ctl = "pass1" =>
        /\ \A i \in 1..(Len(out) - 1) :
              out[i][1] = "ORG" => out[i + 1][3] = C4_OrgArg(out[i]) % 16
        /\ (Len(out) > 0 /\ out[Len(out)][1] = "ORG")
              => pc1 = C4_OrgArg(out[Len(out)]) % 16

\* C4: ORG n sets the program counter to n mod 16 in both passes and writes no
\* cell; the next DATA or instruction statement is written at n mod 16, no
\* other cell changes, and the counter is then (n + 1) mod 16.
C4_OrgSetsCounter ==
    [][ /\ C4_Pass1
        /\ (inPass2 /\ cur[1] = "ORG" /\ k2' = k2 + 1)
              => (pc' = C4_OrgArg(cur) % 16 /\ mem' = mem)
        /\ (/\ inPass2
            /\ k2 >= 1
            /\ out[k2][1] = "ORG"
            /\ cur[1] \notin {"NOPLINE", "ORG"}
            /\ k2' = k2 + 1)
              => /\ pc = C4_OrgArg(out[k2]) % 16
                 /\ \A a \in 0..15 : a # C4_OrgArg(out[k2]) % 16 => mem'[a] = mem[a]
                 /\ mem'[C4_OrgArg(out[k2]) % 16] \in 0..255
                 /\ pc' = (C4_OrgArg(out[k2]) + 1) % 16 ]_vars

\* "ORG 0x0A" then "DATA 0xFF": cells 0..9 are 0, cell 10 is 0xFF, counter 11
C4_Witness ==
    /\ src = "ORG 0x0A\nDATA 0xFF"
    /\ ctl = "returned"
    /\ \A a \in 0..9 : mem[a] = 0
    /\ mem[10] = 255
    /\ pc = 11
    /\ pc1 = 11

\* every program-counter value the passes hold, tag or bind is in 0..15
C5_InRange ==
    /\ pc \in 0..15
    /\ pc1 \in 0..15
    /\ \A i \in 1..Len(out) : out[i][3] \in 0..15
    /\ \A l \in DOMAIN labels : labels[l] \in 0..15

\* C5: in both passes the program counter is in 0..15 in every state, and a
\* statement that occupies cell 15 leaves the counter at 0: the step is taken
\* like any other, so a 17th cell-occupying statement is tagged, bound and
\* written at address 0.
C5_CounterWraps ==
    [][ /\ C5_InRange'
        /\ (/\ inPass1
            /\ k1' = k1 + 1
            /\ ~bareLine(lines[k1 + 1])
            /\ out'[k1 + 1][1] # "ORG"
            /\ pc1 = 15)
              => (pc1' = 0 /\ out'[k1 + 1][3] = 15)
        /\ (/\ inPass2
            /\ k2' = k2 + 1
            /\ cur[1] \notin {"NOPLINE", "ORG"}
            /\ pc = 15)
              => pc' = 0 ]_vars

\* the padding of 16 statements followed by "end: HLT": the label is bound to 0
\* and the HLT byte replaces the first statement's byte in cell 0
C5_Witness ==
    /\ ctl = "returned"
    /\ Len(out) = 17
    /\ lines[17] = "end: HLT"
    /\ out[16][3] = 15
    /\ out[17][3] = 0
    /\ labels["end"] = 0
    /\ mem[0] = 144
    /\ pc = 1

\* the label a line defines, "" if it defines none
C6_LabelOf(line) == IF splitLabel(line).has THEN splitLabel(line).lab ELSE ""

\* line j defines a label that an earlier line defined
C6_Redefines(j) ==
    /\ C6_LabelOf(lines[j]) # ""
    /\ \E i \in 1..(j - 1) : C6_LabelOf(lines[i]) = C6_LabelOf(lines[j])

\* the first line that redefines a label
C6_FirstRedefining ==
    CHOOSE j \in 1..Len(lines) :
        C6_Redefines(j) /\ \A i \in 1..(j - 1) : ~C6_Redefines(i)

\* C6: whenever two lines define the same non-empty label, assemble ends in
\* DuplicateLabel naming a redefined label and returns no image.
C6_AlwaysDuplicateLabel ==
    (ctl \in {"returned", "raised"} /\ \E j \in 1..Len(lines) : C6_Redefines(j))
        => /\ ctl = "raised"
           /\ err.kind = "DuplicateLabel"
           /\ \E j \in 1..Len(lines) :
                 C6_Redefines(j) /\ err.args = <<C6_LabelOf(lines[j])>>

\* what the duplicate check of first_pass does ensure: pass 1 never gets past
\* the first redefining line, and if it reaches that line it raises
\* DuplicateLabel naming its label (otherwise an earlier line raised); when
\* pass 1 succeeds each label was defined by exactly one line.
C6_DuplicateLabelReported ==
    /\ (ctl # "tokenize" /\ \E j \in 1..Len(lines) : C6_Redefines(j))
          => /\ ctl \in {"pass1", "raised"}
             /\ k1 < C6_FirstRedefining
             /\ (ctl = "raised" /\ k1 = C6_FirstRedefining - 1)
                   => err = [kind |-> "DuplicateLabel",
                             args |-> <<C6_LabelOf(lines[C6_FirstRedefining])>>]
    /\ pass1Succeeded
          => /\ DOMAIN labels = {C6_LabelOf(lines[i]) : i \in 1..Len(lines)} \ {""}
             /\ \A lab \in DOMAIN labels :
                   Cardinality({i \in 1..Len(lines) : C6_LabelOf(lines[i]) = lab}) = 1

\* "end" is defined by lines 1 and 3: pass 1 raises DuplicateLabel("end") at line 3
C6_Witness ==
    /\ src = "end: HLT\nJUMP end\nend:"
    /\ ctl = "raised"
    /\ k1 = 2
    /\ err = [kind |-> "DuplicateLabel", args |-> <<"end">>]

\* the mnemonics and directives assemble knows
C7_Known == DOMAIN ISA \cup {"ORG", "DATA"}

\* C7: when pass 2 reaches a statement whose upper-cased first token is neither
\* a mnemonic of the instruction table nor ORG nor DATA, assemble raises
\* UnknownInstruction naming that token and returns no image.
C7_UnknownInstructionRaised ==
    [][ (/\ inPass2
         /\ ~bareLine(lines[k2 + 1])
         /\ cur[1] \notin C7_Known)
           => /\ ctl' = "raised"
              /\ err' = [kind |-> "UnknownInstruction", args |-> <<cur[1]>>] ]_vars

\* C8: when pass 2 reaches LDA, LDB or JUMP with no argument token, assemble
\* raises MissingOperand carrying the mnemonic and the 4-bit program counter of
\* the statement, and no byte is written.
C8_MissingOperandRaised ==
    [][ (inPass2 /\ cur[1] \in {"LDA", "LDB", "JUMP"} /\ cur[2] = <<>>)
           => /\ ctl' = "raised"
              /\ pc \in 0..15
              /\ err' = [kind |-> "MissingOperand", args |-> <<cur[1], pc>>]
              /\ mem' = mem ]_vars

\* "LDA" alone at address 1: MissingOperand("LDA", 1), cell 1 is not written
C8_Witness ==
    /\ src = "HLT\nLDA"
    /\ ctl = "raised"
    /\ err = [kind |-> "MissingOperand", args |-> <<"LDA", 1>>]
    /\ mem[0] = 144
    /\ mem[1] = 0

\* C9: for an instruction that needs an operand, a first argument token that is
\* a key of the label table is the label's address and is not parsed (the step
\* raises nothing, literal or not); only a token absent from the label table
\* is parsed as a literal and masked to 4 bits.
C9_LabelBeforeLiteral ==
    [][ (/\ inPass2
         /\ cur[1] \in DOMAIN ISA
         /\ ISA[cur[1]][2]
         /\ Len(cur[2]) > 0)
           => IF cur[2][1] \in DOMAIN labels
              THEN /\ ctl' = "pass2"
                   /\ mem'[pc] = ISA[cur[1]][1] * 16 + (labels[cur[2][1]] % 16)
              ELSE IF parse_number(cur[2][1]).ok
              THEN /\ ctl' = "pass2"
                   /\ mem'[pc] = ISA[cur[1]][1] * 16 + (parse_number(cur[2][1]).val % 16)
              ELSE /\ ctl' = "raised"
                   /\ err'.kind = "InvalidNumericLiteral" ]_vars

\* a label named "5" bound at address 1: "LDA 5" loads from 1, not from 5
C9_Witness ==
    /\ src = "HLT\n5:  # a label named 5\nLDA 5"
    /\ ctl = "returned"
    /\ labels["5"] = 1
    /\ mem[1] = 17

\* the failure kinds of the error taxonomy
C10_Taxonomy ==
    {"DuplicateLabel", "UnknownInstruction", "MissingOperand",
     "InvalidNumericLiteral", "UndefinedLabel"}

\* C10: assemble returns an image or fails with a kind of the taxonomy; no
\* other failure is reachable.
C10_OnlyTaxonomyFailures == ctl = "raised" => err.kind \in C10_Taxonomy

\* C11: first_pass returns or raises DuplicateLabel and nothing else; it never
\* raises for an unknown mnemonic, an undefined label, or a malformed or
\* missing numeric token, the argument of ORG included.
C11_Pass1RaisesOnlyDuplicateLabel ==
    (ctl = "raised" /\ ~pass1Succeeded) => err.kind = "DuplicateLabel"

\* the characters of s are all in set
C12_AllIn(s, set) == \A i \in 1..Len(s) : Ch(s, i) \in set

C12_BinDigits == {"0", "1"}
C12_DecDigits == {Ch("0123456789", i) : i \in 1..10}
C12_HexDigits == {Ch("0123456789abcdefABCDEF", i) : i \in 1..22}

\* a numeric literal of the input grammar: 0b[01]+, 0x[0-9A-Fa-f]+ or plain
\* digits, the prefix in either case
C12_WellFormed(tok) ==
    \/ Len(tok) > 0 /\ C12_AllIn(tok, C12_DecDigits)
    \/ Len(tok) > 2 /\ lower(SubSeq(tok, 1, 2)) = "0b" /\ C12_AllIn(From(tok, 3), C12_BinDigits)
    \/ Len(tok) > 2 /\ lower(SubSeq(tok, 1, 2)) = "0x" /\ C12_AllIn(From(tok, 3), C12_HexDigits)

\* C12: an instruction that needs an operand and whose first argument token is
\* neither a key of the label table nor a well-formed numeric literal makes
\* assemble raise InvalidNumericLiteral: nothing is encoded, no image returned.
C12_BadOperandRaises ==
    [][ (/\ inPass2
         /\ cur[1] \in DOMAIN ISA
         /\ ISA[cur[1]][2]
         /\ Len(cur[2]) > 0
         /\ cur[2][1] \notin DOMAIN labels
         /\ ~C12_WellFormed(cur[2][1]))
           => /\ ctl' = "raised"
              /\ err'.kind = "InvalidNumericLiteral"
              /\ mem' = mem ]_vars

\* C13: DATA v writes v mod 256 at the program counter, whole byte with no
\* opcode nibble, changes no other cell, and advances the counter by 1 mod 16.
C13_DataWritesByte ==
    [][ (/\ inPass2
         /\ cur[1] = "DATA"
         /\ Len(cur[2]) > 0
         /\ parse_number(cur[2][1]).ok)
           => /\ ctl' = "pass2"
              /\ mem' = [mem EXCEPT ![pc] = parse_number(cur[2][1]).val % 256]
              /\ pc' = (pc + 1) % 16 ]_vars

\* "DATA 0xFF" at address 1 stores 255, not 15, and the counter is then 2
C13_Witness ==
    /\ src = "HLT\nDATA 0xFF"
    /\ ctl = "returned"
    /\ mem[1] = 255
    /\ pc = 2

\* the text of raw before the first ";" or "#", whichever comes first
C14_BeforeComment(raw) ==
    LET M == {i \in 1..Len(raw) : Ch(raw, i) \in {";", "#"}}
    IN  IF M = {} THEN raw
        ELSE SubSeq(raw, 1, (CHOOSE i \in M : \A j \in M : i <= j) - 1)

\* the trimmed texts before the comment of the raw lines, empty ones dropped
C14_Kept(raws) ==
    SelectSeq([i \in 1..Len(raws) |-> strip(C14_BeforeComment(raws[i]))],
              LAMBDA l : Len(l) > 0)

\* comments appended to a line, and lines inserted between lines
C14_Comments == <<" ; note", "# x: HLT", ";">>
C14_Fillers == <<"", "  \t", "; ORG 3", "# end:">>

\* the raw lines with a comment appended to every line and a blank or
\* comment-only line inserted before every line and after the last
C14_Decorated(raws) ==
    join([k \in 1..(2 * Len(raws) + 1) |->
             IF k % 2 = 1
             THEN C14_Fillers[((k \div 2) % Len(C14_Fillers)) + 1]
             ELSE raws[k \div 2] \o C14_Comments[((k \div 2) % Len(C14_Comments)) + 1]])

\* what tokenize does with the raw lines raws, of which kept are kept
C14_Normalizer(raws, kept) ==
    /\ kept = C14_Kept(raws)
    /\ \A i \in 1..Len(raws) : \A c \in 1..Len(C14_Comments) :
          normalize(raws[i] \o C14_Comments[c]) = normalize(raws[i])
    /\ \A f \in 1..Len(C14_Fillers) : tokenize(C14_Fillers[f]) = <<>>
    /\ tokenize(C14_Decorated(raws)) = kept

\* C14: the normalized lines are the trimmed texts before the first ";" or "#"
\* of the raw lines, empty ones dropped; a comment appended to a line leaves
\* its normalized line the same, a blank or comment-only line yields nothing,
\* and the source with comments appended and such lines inserted everywhere
\* has the same normalized lines, which are all that the passes read, so that
\* labels, tags and image are the same.
C14_CommentsAndBlanksIgnored ==
    [][ /\ ctl = "tokenize" => C14_Normalizer(splitlines(src), lines')
        /\ ctl # "tokenize" => (lines' = lines /\ src' = src) ]_vars

\* a comment-only line is dropped and a trailing comment cut: two lines remain,
\* and the label "5" is bound at address 1
C14_Witness ==
    /\ src = "HLT\n; only a comment\n5:  # a label named 5"
    /\ ctl = "returned"
    /\ lines = <<"HLT", "5:">>
    /\ labels["5"] = 1
    /\ mem[0] = 144

\* pass 2 is at a statement whose first argument token it hands to parse_number
C15_Parses ==
    /\ inPass2
    /\ Len(cur[2]) > 0
    /\ \/ cur[1] \in {"ORG", "DATA"}
       \/ cur[1] \in DOMAIN ISA /\ ISA[cur[1]][2] /\ cur[2][1] \notin DOMAIN labels

\* the value of the digit string d in base
RECURSIVE C15_ValueOf(_, _, _)
C15_ValueOf(d, base, acc) ==
    IF Len(d) = 0 THEN acc
    ELSE C15_ValueOf(From(d, 2), base, acc * base + digitValue(Ch(d, 1)))

\* tok starts with the two characters of prefix, in either case
C15_Starts(tok, prefix) == Len(tok) >= 2 /\ lower(SubSeq(tok, 1, 2)) = prefix

\* 0b or 0B followed by one or more binary digits
C15_Binary(tok) == C15_Starts(tok, "0b") /\ Len(tok) > 2 /\ C12_AllIn(From(tok, 3), C12_BinDigits)

\* C15: parse_number reads 0b/0B followed by binary digits in base 2, otherwise
\* a token starting with 0x/0X in base 16, otherwise the token in base 10; a
\* token starting with 0b/0B that is not all binary digits after the prefix
\* fails with InvalidNumericLiteral; the value is never clamped.
C15_FormatDetection ==
    [][ C15_Parses =>
          IF C15_Binary(cur[2][1])
          THEN /\ parse_number(cur[2][1]).ok
               /\ parse_number(cur[2][1]).val = C15_ValueOf(From(cur[2][1], 3), 2, 0)
               /\ ctl' = "pass2"
          ELSE IF C15_Starts(cur[2][1], "0b")
          THEN /\ ~parse_number(cur[2][1]).ok
               /\ ctl' = "raised"
               /\ err'.kind = "InvalidNumericLiteral"
          ELSE IF C15_Starts(cur[2][1], "0x")
          THEN /\ parse_number(cur[2][1]).base = 16
               /\ (Len(cur[2][1]) > 2 /\ C12_AllIn(From(cur[2][1], 3), C12_HexDigits))
                     => /\ parse_number(cur[2][1]).ok
                        /\ parse_number(cur[2][1]).val = C15_ValueOf(From(cur[2][1], 3), 16, 0)
          ELSE /\ parse_number(cur[2][1]).base = 10
               /\ C12_AllIn(cur[2][1], C12_DecDigits)
                     => /\ parse_number(cur[2][1]).ok
                        /\ parse_number(cur[2][1]).val = C15_ValueOf(cur[2][1], 10, 0) ]_vars

\* C16: when pass 2 is at an operation its program counter is the address
\* pass 1 tagged on that operation, so each statement is written to the cell
\* its tag names, and a label defined on a line is bound to the tag of that
\* line's operation.
C16_PassesInStep ==
    /\ inPass2 => pc = cur[3]
    /\ pass1Succeeded
          => \A i \in 1..Len(lines) :
                C6_LabelOf(lines[i]) # "" => labels[C6_LabelOf(lines[i])] = out[i][3]

\* the lines after line i up to the next line that is not only a label are
\* all bare, and that next line, if any, is line j
C17_NextStatement(i, j) ==
    /\ j > i
    /\ ~bareLine(lines[j])
    /\ \A m \in (i + 1)..(j - 1) : bareLine(lines[m])

\* C17: a line that is only a label binds the label to the current program
\* counter, emits a marker tagged with it, writes no cell and leaves the counter
\* where it is in pass 1 and in pass 2; the label is the address of the next
\* statement unless that is ORG, also across several bare label lines.
C17_BareLabelLine ==
    [][ /\ (inPass1 /\ bareLine(lines[k1 + 1]) /\ k1' = k1 + 1)
              => /\ pc1' = pc1
                 /\ out' = Append(out, <<"NOPLINE", <<>>, pc1>>)
                 /\ C6_LabelOf(lines[k1 + 1]) # ""
                       => labels'[C6_LabelOf(lines[k1 + 1])] = pc1
        /\ (inPass2 /\ bareLine(lines[k2 + 1]))
              => (ctl' = "pass2" /\ pc' = pc /\ mem' = mem)
        /\ ctl = "pass2"
              => \A i \in 1..Len(lines) : \A j \in 1..Len(lines) :
                    (/\ bareLine(lines[i])
                     /\ C6_LabelOf(lines[i]) # ""
                     /\ C17_NextStatement(i, j)
                     /\ out[j][1] # "ORG")
                       => labels[C6_LabelOf(lines[i])] = out[j][3]
        /\ (/\ inPass2
            /\ k2 >= 1
            /\ bareLine(lines[k2])
            /\ C6_LabelOf(lines[k2]) # ""
            /\ cur[1] \notin {"NOPLINE", "ORG"})
              => pc = labels[C6_LabelOf(lines[k2])] ]_vars

\* the program counters of pass 2 at the operations 1..n of out
RECURSIVE C18_Pcs(_)
C18_Pcs(n) ==
    IF n = 0 THEN <<>>
    ELSE IF n = 1 THEN <<0>>
    ELSE LET prev == C18_Pcs(n - 1)
         IN  Append(prev, assembleOp(out[n - 1][1], out[n - 1][2], out[n - 1][3],
                                     labels, prev[n - 1]).pc)

\* operation i of out writes a cell
C18_Writes(i) == out[i][1] \notin {"NOPLINE", "ORG"}

\* the byte operation i writes when the program counter is addr
C18_ByteOf(i, addr) ==
    assembleOp(out[i][1], out[i][2], out[i][3], labels, addr).write[1]

\* in the image m, with pass 2 at pcs[i] for operation i, a cell no statement
\* wrote holds 0 and any other cell holds the byte of the last statement that
\* wrote it
C18_ImageOf(m, pcs) ==
    /\ \A a \in 0..15 :
          (\A i \in 1..Len(out) : C18_Writes(i) => pcs[i] # a) => m[a] = 0
    /\ \A i \in 1..Len(out) :
          (/\ C18_Writes(i)
           /\ \A j \in (i + 1)..Len(out) : C18_Writes(j) => pcs[j] # pcs[i])
             => m[pcs[i]] = C18_ByteOf(i, pcs[i])

C18_Image(m) == C18_ImageOf(m, C18_Pcs(Len(out)))

\* C18: a DATA or instruction step of pass 2 writes the cell at the program
\* counter and leaves the other 15 cells and the label table unchanged; ORG
\* and bare-label steps change no cell; so in the returned image a cell never
\* written holds 0 and a cell written several times holds the last byte.
C18_OneCellPerStep ==
    [][ /\ (inPass2 /\ k2' = k2 + 1 /\ cur[1] \notin {"NOPLINE", "ORG"})
              => /\ \A a \in 0..15 : a # pc => mem'[a] = mem[a]
                 /\ labels' = labels
        /\ (inPass2 /\ k2' = k2 + 1 /\ cur[1] \in {"NOPLINE", "ORG"})
              => (mem' = mem /\ labels' = labels)
        /\ (ctl = "pass2" /\ k2 = Len(out))
              => (ctl' = "returned" /\ mem' = mem /\ labels' = labels /\ C18_Image(mem)) ]_vars

\* 17 one-cell statements: the last, "HLT", wraps to cell 0 and replaces the
\* 0x11 of the first; cell 1 keeps 0x22
C18_Witness ==
    /\ ctl = "returned"
    /\ Len(out) = 17
    /\ out[1] = <<"LDA", <<"1">>, 0>>
    /\ out[17] = <<"HLT", <<>>, 0>>
    /\ mem[0] = 144
    /\ mem[1] = 34

\* the mnemonics that take no operand
C19_NoOperand == {"ADD", "SHL_A", "SHR_A", "SHL_B", "SHR_B", "HLT"}

\* C19: for a mnemonic that takes no operand the argument tokens are ignored:
\* whatever they are the step raises nothing and writes opcode * 16.
C19_ArgumentsIgnored ==
    [][ (inPass2 /\ cur[1] \in C19_NoOperand)
           => /\ ctl' = "pass2"
              /\ err' = err
              /\ mem' = [mem EXCEPT ![pc] = ISA[cur[1]][1] * 16]
              /\ pc' = (pc + 1) % 16 ]_vars

\* "Add end, 0b2": ADD with an undefined label and a malformed literal as
\* arguments assembles to 0x30
C19_Witness ==
    /\ src = "Add end, 0b2"
    /\ ctl = "returned"
    /\ out = << <<"ADD", <<"end", "0b2">>, 0>> >>
    /\ mem[0] = 48

\* operation i of out is a statement pass 2 has to reject: an unknown
\* mnemonic, LDA, LDB or JUMP without operand, or a malformed literal
C20_Offending(i) ==
    /\ ~bareLine(lines[i])
    /\ \/ out[i][1] \notin C7_Known
       \/ /\ out[i][1] \in {"LDA", "LDB", "JUMP"}
          /\ \/ out[i][2] = <<>>
             \/ out[i][2][1] \notin DOMAIN labels /\ ~C12_WellFormed(out[i][2][1])
       \/ /\ out[i][1] \in {"ORG", "DATA"}
          /\ out[i][2] # <<>>
          /\ ~C12_WellFormed(out[i][2][1])

\* C20: pass 2 starts only when pass 1 has consumed every line; a source with
\* a duplicate label definition anywhere ends in DuplicateLabel, whatever
\* pass 2 would reject on earlier lines; an UnknownInstruction, MissingOperand
\* or InvalidNumericLiteral is raised only after pass 1 succeeded, on the
\* first statement in source order that pass 2 has to reject.
C20_Pass1ThenPass2 ==
    /\ (ctl \in {"pass2", "returned"} \/ k2 > 0) => k1 = Len(lines)
    /\ (ctl \in {"returned", "raised"} /\ \E j \in 1..Len(lines) : C6_Redefines(j))
          => (ctl = "raised" /\ err.kind = "DuplicateLabel")
    /\ (ctl = "raised"
        /\ err.kind \in {"UnknownInstruction", "MissingOperand", "InvalidNumericLiteral"})
          => /\ pass1Succeeded
             /\ C20_Offending(k2 + 1)
             /\ \A i \in 1..k2 : ~C20_Offending(i)

====
